---- MODULE Spec2Model ----
(***************************************************************************)
(* Model of the snowflake id generator (src/src/lib.rs): the Snowflake     *)
(* generator, its bit layout, and the ConcurrentSnowflake wrapper          *)
(* (Arc<Mutex<Snowflake>>).                                                *)
(*                                                                         *)
(* The source packs  1 sign bit | 44 bits millis | 17 bits seq | 2 bits    *)
(* service id  into an i64.  TLC's integers are 32 bits wide, so the model *)
(* keeps the layout but scales the two wide fields: the timestamp field    *)
(* has MillisBits bits (44 in the source) and the sequence field SeqBits   *)
(* bits (17 in the source).  Every constant of the source that depends on  *)
(* a field width is written as the same expression of these widths.        *)
(***************************************************************************)
EXTENDS Integers, Sequences, FiniteSets, TLC

\* ---------------------------------------------------------------- bounds
\* width of the sequence field (17 in the source)
SeqBits == 2
\* width of the timestamp field (44 in the source)
MillisBits == 2
\* latest of the consecutive clock readings a call may see
MaxClock == 1
\* number of ids a behaviour may issue
MaxCalls == 4
\* number of threads that may hold a handle
NumThreads == 2
\* largest service id a caller may pass to a constructor (u16 in the source)
MaxServiceIdArg == 4
\* latest epoch a caller may pass to with_epoch, in milliseconds
MaxEpoch == 1

\* ------------------------------------------------------------- constants
\* const MAX_17_BITS: u32 = 131071  (= 2^17 - 1)
MAX_17_BITS == 2^SeqBits - 1
\* const MAX_2_BITS: u16 = 3
MAX_2_BITS == 3
\* std::time::UNIX_EPOCH
UNIX_EPOCH == 0
\* `<< 2`: the sequence field sits above the 2 service-id bits
SEQ_SHIFT == 2
\* `<< 19`: the timestamp field sits above 17 + 2 bits
TIME_SHIFT == SeqBits + SEQ_SHIFT
\* width of i64: sign bit, timestamp, sequence, service id (64 in the source)
I64Bits == 1 + MillisBits + TIME_SHIFT

Threads == 1..NumThreads
\* wall-clock readings (milliseconds since UNIX_EPOCH) a call may see: the
\* first few milliseconds and the last one the timestamp field can hold
Clock == (0..MaxClock) \cup {2^MillisBits - 1}

\* ------------------------------------------------------- i64 arithmetic
\* two's complement: the unsigned bit pattern of an i64 and back
ToUnsigned(x) == x % 2^I64Bits
ToSigned(u) == IF u >= 2^(I64Bits - 1) THEN u - 2^I64Bits ELSE u

RECURSIVE BitOr(_, _)
BitOr(a, b) ==
    IF a = 0 THEN b
    ELSE IF b = 0 THEN a
    ELSE (IF a % 2 = 1 \/ b % 2 = 1 THEN 1 ELSE 0) + 2 * BitOr(a \div 2, b \div 2)

RECURSIVE BitAnd(_, _)
BitAnd(a, b) ==
    IF a = 0 \/ b = 0 THEN 0
    ELSE (IF a % 2 = 1 /\ b % 2 = 1 THEN 1 ELSE 0) + 2 * BitAnd(a \div 2, b \div 2)

\* i64 `<<`: bits shifted past bit 63 are lost
Shl(x, n) == ToSigned((ToUnsigned(x) * 2^n) % 2^I64Bits)
\* i64 `>>`: arithmetic shift
Shr(x, n) == x \div 2^n
\* i64 `|` and `&`
Or(a, b) == ToSigned(BitOr(ToUnsigned(a), ToUnsigned(b)))
And(a, b) == ToSigned(BitAnd(ToUnsigned(a), ToUnsigned(b)))

\* ------------------------------------------------------------ encoding
\* Encode with the timestamp shifted one bit too far
EncodeTimeShiftedTooFar(millis, s, sid) ==
    Or(Or(Shl(millis, TIME_SHIFT + 1), s * 2^SEQ_SHIFT), sid)
\* Encode without the service id
EncodeWithoutServiceId(millis, s, sid) ==
    Or(Shl(millis, TIME_SHIFT), s * 2^SEQ_SHIFT)
\* Encode with the sequence shifted one bit too little
EncodeSeqOverlapsServiceId(millis, s, sid) ==
    Or(Or(Shl(millis, TIME_SHIFT), s * 2^(SEQ_SHIFT - 1)), sid)

\* Encode with the sequence shifted one bit too far, into the timestamp
EncodeSeqShiftedIntoTime(millis, s, sid) ==
    Or(Or(Shl(millis, TIME_SHIFT), s * 2^(SEQ_SHIFT + 1)), sid)

\* millis << 19 | (seq << 2) as i64 | service_id as i64
Encode(millis, s, sid) == Or(Or(Shl(millis, TIME_SHIFT), s * 2^SEQ_SHIFT), sid)

\* the decoding of spec.md 4.1
DecodeMillis(id) == Shr(id, TIME_SHIFT)
DecodeSeq(id) == And(Shr(id, SEQ_SHIFT), 2^SeqBits - 1)
DecodeServiceId(id) == And(id, 3)

\* --------------------------------------------------------------- state
VARIABLES
    kind,         \* "none" until a constructor succeeds, then the type built
    epoch,        \* Snowflake.epoch
    service_id,   \* Snowflake.service_id
    last_millis,  \* Snowflake.last_millis
    seq,          \* Snowflake.seq
    ctor,         \* the last constructor call: its name, argument and result
    handles,      \* threads owning the Snowflake or a ConcurrentSnowflake handle
    mutex,        \* thread holding the MutexGuard, 0 when unlocked
    poisoned,     \* the Mutex's poison flag
    pc,           \* per thread: "idle", "waiting" (inside lock()), "locked" (inside
                  \* the critical section), "panicked"
    result,       \* per thread: how its last gen call ended ("Ok": it returned the
                  \* id appended to issued)
    issued,       \* history: the ids returned so far, in order, with the clock reading of each call
    enc_in,       \* input of the encoding when it is exercised on its own
    enc_out,      \* its output
    enc_in2,      \* input and output of a second encoding, by any generator
    enc_out2

vars == <<kind, epoch, service_id, last_millis, seq, ctor, handles, mutex,
          poisoned, pc, result, issued, enc_in, enc_out, enc_in2, enc_out2>>

gen_state == <<epoch, service_id, last_millis, seq>>
enc_vars == <<enc_in, enc_out, enc_in2, enc_out2>>

NoResult == "None"
NoCtor == [name |-> "none", service_id |-> 0, result |-> "none"]
NoEnc == [millis |-> 0, seq |-> 0, service_id |-> 0]
NoOut == [done |-> FALSE, id |-> 0]

Constructors == {"Snowflake::new", "Snowflake::with_epoch",
                 "ConcurrentSnowflake::new", "ConcurrentSnowflake::with_epoch"}

Init ==
    /\ kind = "none"
    /\ epoch = UNIX_EPOCH
    /\ service_id = 0
    /\ last_millis = 0
    /\ seq = 0
    /\ ctor = NoCtor
    /\ handles = {}
    /\ mutex = 0
    /\ poisoned = FALSE
    /\ pc = [t \in Threads |-> "idle"]
    /\ result = [t \in Threads |-> NoResult]
    /\ issued = <<>>
    /\ enc_in = NoEnc
    /\ enc_out = NoOut
    /\ enc_in2 = NoEnc
    /\ enc_out2 = NoOut

\* --------------------------------------------------------- construction
\* the check with >= in place of >
InvalidServiceIdOffByOne(sid) == sid >= MAX_2_BITS
\* Snowflake::with_epoch: `if service_id > MAX_2_BITS { return Err(..) }`
InvalidServiceId(sid) == sid > MAX_2_BITS

\* Snowflake::new / ConcurrentSnowflake::new pass UNIX_EPOCH, the with_epoch
\* constructors pass the caller's epoch; all four end in Snowflake::with_epoch
CtorEpoch(name, ep) ==
    IF name \in {"Snowflake::new", "ConcurrentSnowflake::new"} THEN UNIX_EPOCH ELSE ep

CtorKind(name) ==
    IF name \in {"Snowflake::new", "Snowflake::with_epoch"}
    THEN "Snowflake" ELSE "ConcurrentSnowflake"

\* a constructor call by thread 1; an Err builds nothing (`?` returns early)
Construct(name, sid, ep) ==
    /\ kind = "none"
    /\ IF InvalidServiceId(sid)
       THEN /\ ctor' = [name |-> name, service_id |-> sid, result |-> "InvalidServiceIdError"]
            /\ UNCHANGED <<kind, gen_state, handles>>
       ELSE /\ ctor' = [name |-> name, service_id |-> sid, result |-> "Ok"]
            /\ kind' = CtorKind(name)
            /\ epoch' = CtorEpoch(name, ep)
            /\ service_id' = sid
            /\ last_millis' = 0
            /\ seq' = 0
            /\ handles' = {1}
    /\ UNCHANGED <<mutex, poisoned, pc, result, issued, enc_vars>>

\* clone building a fresh Snowflake (zeroed counters) instead of sharing the Arc
CloneZeroesCounters(t, u) ==
    /\ kind = "ConcurrentSnowflake"
    /\ t \in handles
    /\ u \notin handles
    /\ pc[t] = "idle"
    /\ handles' = handles \cup {u}
    /\ last_millis' = 0
    /\ seq' = 0
    /\ UNCHANGED <<kind, epoch, service_id, ctor, mutex, poisoned, pc, result, issued, enc_vars>>

\* ConcurrentSnowflake::clone: a new handle on the same Arc, moved to thread u
Clone(t, u) ==
    /\ kind = "ConcurrentSnowflake"
    /\ t \in handles
    /\ u \notin handles
    /\ pc[t] = "idle"
    /\ handles' = handles \cup {u}
    /\ UNCHANGED <<kind, gen_state, ctor, mutex, poisoned, pc, result, issued, enc_vars>>

\* ------------------------------------------------------------------ gen
\* get_time without the unwrap: a reading before the epoch goes through
GetTimeNeverPanics(now) == FALSE
\* Snowflake::get_time: current_time.duration_since(self.epoch).unwrap()
\* panics when the clock reads a time before the epoch
GetTimePanics(now) == now < epoch
get_time(now) == now - epoch

\* next_seq reducing modulo 2^17 instead of MAX_17_BITS
next_seqModuloCapacity(s) == (s + 1) % (MAX_17_BITS + 1)
\* Snowflake::next_seq
next_seq(s) == (s + 1) % MAX_17_BITS

\* the stall branch: `else if self.seq == MAX_17_BITS`
Stalls(millis) == ~(millis > last_millis) /\ seq = MAX_17_BITS

\* gen without `self.seq = 0` in the new-millisecond branch
genWithoutReset(millis) ==
    LET m == IF millis > last_millis THEN millis
             ELSE IF seq = MAX_17_BITS THEN millis + 1
             ELSE millis
        s == next_seq(seq)
    IN [last_millis |-> m, seq |-> s, id |-> Encode(m, s, service_id),
        stalled |-> Stalls(millis)]

\* gen encoding the sequence value it had before next_seq
genEncodesOldSeq(millis) ==
    LET m == IF millis > last_millis THEN millis
             ELSE IF seq = MAX_17_BITS THEN millis + 1
             ELSE millis
        s0 == IF millis > last_millis THEN 0 ELSE seq
        s == next_seq(s0)
    IN [last_millis |-> m, seq |-> s, id |-> Encode(m, s0, service_id),
        stalled |-> Stalls(millis)]

\* Snowflake::gen after get_time: the new last_millis, the new seq and the id.
\* The stall branch sleeps and adds 1 to millis; the sleep changes no field.
gen(millis) ==
    LET m == IF millis > last_millis THEN millis
             ELSE IF seq = MAX_17_BITS THEN millis + 1
             ELSE millis
        s0 == IF millis > last_millis THEN 0 ELSE seq
        s == next_seq(s0)
    IN [last_millis |-> m, seq |-> s, id |-> Encode(m, s, service_id),
        stalled |-> Stalls(millis)]

Issue(millis, g) ==
    Append(issued, [id |-> g.id, millis |-> millis, stalled |-> g.stalled])

\* Snowflake::gen on a Snowflake owned by thread t (&mut self: one caller)
SnowflakeGen(t, now) ==
    /\ kind = "Snowflake"
    /\ t \in handles
    /\ pc[t] = "idle"
    /\ Len(issued) < MaxCalls
    /\ IF GetTimePanics(now)
       THEN /\ pc' = [pc EXCEPT ![t] = "panicked"]
            /\ result' = [result EXCEPT ![t] = "Panic"]
            /\ UNCHANGED <<last_millis, seq, issued>>
       ELSE LET g == gen(get_time(now)) IN
            /\ last_millis' = g.last_millis
            /\ seq' = g.seq
            /\ result' = [result EXCEPT ![t] = "Ok"]
            /\ issued' = Issue(get_time(now), g)
            /\ UNCHANGED pc
    /\ UNCHANGED <<kind, epoch, service_id, ctor, handles, mutex, poisoned, enc_vars>>

\* threads inside a ConcurrentSnowflake::gen call
InCall == {t \in Threads : pc[t] \in {"waiting", "locked"}}

\* a thread calls ConcurrentSnowflake::gen on its handle and enters lock()
ConcurrentCall(t) ==
    /\ kind = "ConcurrentSnowflake"
    /\ t \in handles
    /\ pc[t] = "idle"
    /\ Len(issued) + Cardinality(InCall) < MaxCalls
    /\ pc' = [pc EXCEPT ![t] = "waiting"]
    /\ UNCHANGED <<kind, gen_state, ctor, handles, mutex, poisoned, result, issued, enc_vars>>

\* lock() with the poison flag ignored (`unwrap_or_else(|e| e.into_inner())`)
ConcurrentLockIgnoringPoison(t) ==
    /\ kind = "ConcurrentSnowflake"
    /\ pc[t] = "waiting"
    /\ mutex = 0
    /\ mutex' = t
    /\ pc' = [pc EXCEPT ![t] = "locked"]
    /\ UNCHANGED <<kind, gen_state, ctor, handles, poisoned, result, issued, enc_vars>>

\* ConcurrentSnowflake::gen, first half: self.inner.lock().map_err(..)?
\* lock() waits for the mutex; on a poisoned mutex it returns Err, the guard
\* inside the error is dropped and the call returns PoisonError
ConcurrentLock(t) ==
    /\ kind = "ConcurrentSnowflake"
    /\ pc[t] = "waiting"
    /\ mutex = 0
    /\ IF poisoned
       THEN /\ result' = [result EXCEPT ![t] = "PoisonError"]
            /\ pc' = [pc EXCEPT ![t] = "idle"]
            /\ UNCHANGED mutex
       ELSE /\ mutex' = t
            /\ pc' = [pc EXCEPT ![t] = "locked"]
            /\ UNCHANGED result
    /\ UNCHANGED <<kind, gen_state, ctor, handles, poisoned, issued, enc_vars>>

\* the second half with the guard leaked on the normal path: the mutex stays
\* locked after the call has returned
ConcurrentGenKeepsGuard(t, now) ==
    /\ kind = "ConcurrentSnowflake"
    /\ pc[t] = "locked"
    /\ mutex = t
    /\ IF GetTimePanics(now)
       THEN /\ pc' = [pc EXCEPT ![t] = "panicked"]
            /\ result' = [result EXCEPT ![t] = "Panic"]
            /\ poisoned' = TRUE
            /\ mutex' = 0
            /\ UNCHANGED <<last_millis, seq, issued>>
       ELSE LET g == gen(get_time(now)) IN
            /\ last_millis' = g.last_millis
            /\ seq' = g.seq
            /\ result' = [result EXCEPT ![t] = "Ok"]
            /\ issued' = Issue(get_time(now), g)
            /\ pc' = [pc EXCEPT ![t] = "idle"]
            /\ UNCHANGED <<poisoned, mutex>>
    /\ UNCHANGED <<kind, epoch, service_id, ctor, handles, enc_vars>>

\* ConcurrentSnowflake::gen, second half: the inner Snowflake::gen under the
\* guard; the guard is dropped at the end of the statement, and a panic
\* while it is held poisons the mutex
ConcurrentGen(t, now) ==
    /\ kind = "ConcurrentSnowflake"
    /\ pc[t] = "locked"
    /\ mutex = t
    /\ IF GetTimePanics(now)
       THEN /\ pc' = [pc EXCEPT ![t] = "panicked"]
            /\ result' = [result EXCEPT ![t] = "Panic"]
            /\ poisoned' = TRUE
            /\ UNCHANGED <<last_millis, seq, issued>>
       ELSE LET g == gen(get_time(now)) IN
            /\ last_millis' = g.last_millis
            /\ seq' = g.seq
            /\ result' = [result EXCEPT ![t] = "Ok"]
            /\ issued' = Issue(get_time(now), g)
            /\ pc' = [pc EXCEPT ![t] = "idle"]
            /\ UNCHANGED poisoned
    /\ mutex' = 0
    /\ UNCHANGED <<kind, epoch, service_id, ctor, handles, enc_vars>>

Next ==
    \/ \E name \in Constructors, sid \in 0..MaxServiceIdArg, ep \in 0..MaxEpoch :
          Construct(name, sid, ep)
    \/ \E t \in Threads, u \in Threads : Clone(t, u)
    \/ \E t \in Threads, now \in Clock : SnowflakeGen(t, now)
    \/ \E t \in Threads : ConcurrentCall(t)
    \/ \E t \in Threads : ConcurrentLock(t)
    \/ \E t \in Threads, now \in Clock : ConcurrentGen(t, now)

Spec == Init /\ [][Next]_vars

\* A fair scheduler: a thread inside the critical section keeps running until
\* its gen returns or panics (gen has no loop and its one sleep is bounded),
\* and a thread blocked in lock() obtains the mutex if it is free again and
\* again.
FairSpec ==
    /\ Spec
    /\ \A t \in Threads : WF_vars(\E now \in Clock : ConcurrentGen(t, now))
    /\ \A t \in Threads : SF_vars(ConcurrentLock(t))

\* ------------------------------------------- the encoding on its own
\* every (millis, seq, service_id) the three fields can hold
EncInputs == [millis : 0..(2^MillisBits - 1), seq : 0..(2^SeqBits - 1),
              service_id : 0..MAX_2_BITS]

EncInit ==
    /\ kind = "none"
    /\ epoch = UNIX_EPOCH
    /\ service_id = 0
    /\ last_millis = 0
    /\ seq = 0
    /\ ctor = NoCtor
    /\ handles = {}
    /\ mutex = 0
    /\ poisoned = FALSE
    /\ pc = [t \in Threads |-> "idle"]
    /\ result = [t \in Threads |-> NoResult]
    /\ issued = <<>>
    /\ enc_in \in EncInputs
    /\ enc_out = NoOut
    /\ enc_in2 = NoEnc
    /\ enc_out2 = NoOut

\* the last line of Snowflake::gen applied to the input
EncodeStep ==
    /\ ~enc_out.done
    /\ enc_out' = [done |-> TRUE,
                   id |-> Encode(enc_in.millis, enc_in.seq, enc_in.service_id)]
    /\ UNCHANGED <<kind, gen_state, ctor, handles, mutex, poisoned, pc, result,
                   issued, enc_in, enc_in2, enc_out2>>

EncNext == EncodeStep

EncSpec == EncInit /\ [][EncNext]_vars

\* ------------------------------------------------ two encodings compared
OrdInit ==
    /\ kind = "none"
    /\ epoch = UNIX_EPOCH
    /\ service_id = 0
    /\ last_millis = 0
    /\ seq = 0
    /\ ctor = NoCtor
    /\ handles = {}
    /\ mutex = 0
    /\ poisoned = FALSE
    /\ pc = [t \in Threads |-> "idle"]
    /\ result = [t \in Threads |-> NoResult]
    /\ issued = <<>>
    /\ enc_in \in EncInputs
    /\ enc_out = NoOut
    /\ enc_in2 \in EncInputs
    /\ enc_out2 = NoOut

\* the last line of Snowflake::gen applied to the second input
EncodeSecondStep ==
    /\ ~enc_out2.done
    /\ enc_out2' = [done |-> TRUE,
                    id |-> Encode(enc_in2.millis, enc_in2.seq, enc_in2.service_id)]
    /\ UNCHANGED <<kind, gen_state, ctor, handles, mutex, poisoned, pc, result,
                   issued, enc_in, enc_out, enc_in2>>

OrdNext == EncodeStep \/ EncodeSecondStep

OrdSpec == OrdInit /\ [][OrdNext]_vars

\* ---------------------------------------------------------- properties
Calls == 1..Len(issued)

\* the clock never moved backward between calls
MonotoneClock == \A i, j \in Calls : i < j => issued[i].millis <= issued[j].millis

DistinctIds == \A i, j \in Calls : i < j => issued[i].id # issued[j].id

\* the (millis, seq) pair an id carries
Pair(id) == <<DecodeMillis(id), DecodeSeq(id)>>

\* number of calls one millisecond is meant to hold before the stall
\* (131072 in the source's layout)
SeqCapacity == 2^SeqBits

\* C1: for every valid service id and any sequence of Snowflake::gen calls on
\* one generator, under a clock that never moves backward and with any number
\* of calls in one millisecond, all returned ids are pairwise distinct.
C1_IdsDistinctUnderMonotoneClock ==
    (kind = "Snowflake" /\ MonotoneClock) => DistinctIds

\* C2: calls through the handles of one ConcurrentSnowflake, in any
\* interleaving, never return the same id (checked under the most favourable
\* clock, one that never moves backward).
C2_ConcurrentIdsDistinct ==
    (kind = "ConcurrentSnowflake" /\ MonotoneClock) => DistinctIds

\* C3: on one Snowflake, whenever a call's clock reading is at least the
\* previous call's reading, its id is strictly greater than the previous id.
C3_StrictlyIncreasing ==
    kind = "Snowflake" =>
        \A i \in Calls : (i > 1 /\ issued[i - 1].millis <= issued[i].millis)
                            => issued[i - 1].id < issued[i].id

\* calls i .. i + SeqCapacity - 1 all read millisecond m, and call i is the
\* first to read it
FullMillisecond(i, m) ==
    /\ i + SeqCapacity - 1 <= Len(issued)
    /\ \A k \in i..(i + SeqCapacity - 1) : issued[k].millis = m
    /\ i > 1 => issued[i - 1].millis < m

\* C4: when SeqCapacity calls fall into one millisecond m, the last of them
\* takes the stall path and returns timestamp m + 1 with the sequence
\* restarted, and no two of them carry the same (millis, seq) pair.
C4_ExhaustionStalls ==
    kind = "Snowflake" =>
        \A i \in Calls, m \in Clock :
            FullMillisecond(i, m) =>
                LET n == i + SeqCapacity - 1 IN
                /\ issued[n].stalled
                /\ DecodeMillis(issued[n].id) = m + 1
                /\ \A a, b \in i..n : a < b => Pair(issued[a].id) # Pair(issued[b].id)

\* a step in which gen returns an id
Returned == Len(issued') = Len(issued) + 1
NewCall == issued'[Len(issued')]

\* C5: a gen call that reads a millisecond smaller than last_millis returns
\* an id greater than every id the generator returned before.
C5_RollbackIdAboveEarlier ==
    [][(Returned /\ NewCall.millis < last_millis)
          => \A i \in Calls : issued[i].id < NewCall.id]_vars

\* C6: whatever the clock does, the timestamp field of each returned id is at
\* least the timestamp field of every id returned earlier (last_millis never
\* decreases).
C6_TimestampNeverDecreases ==
    \A i, j \in Calls : i < j => DecodeMillis(issued[i].id) <= DecodeMillis(issued[j].id)

\* C7: every id returned by gen is non-negative when the elapsed milliseconds
\* fit the timestamp field.
C7_IdsNonNegative == \A i \in Calls : issued[i].id >= 0

\* an id was returned whose timestamp field has its top bit set and whose
\* sequence field is not zero
C7_Witness ==
    \E i \in Calls : /\ issued[i].millis = 2^MillisBits - 1
                     /\ DecodeSeq(issued[i].id) > 0
                     /\ issued[i].id >= 2^(I64Bits - 2)

\* C8: every id returned through a Snowflake or any ConcurrentSnowflake handle
\* has the constructor's service id in its two low bits.
C8_ServiceIdInLowBits == \A i \in Calls : And(issued[i].id, 3) = ctor.service_id

\* two handles of a generator built with service id 2 have each returned an id
C8_Witness ==
    /\ kind = "ConcurrentSnowflake"
    /\ ctor.service_id = 2
    /\ \A t \in {1, 2} : result[t] = "Ok"
    /\ Len(issued) >= 2
    /\ \A i \in Calls : And(issued[i].id, 3) = 2
    /\ \E i \in Calls : DecodeSeq(issued[i].id) = 1

\* C9: for every millis, seq and service id the fields can hold, the encoded
\* id decodes back to the three values.
C9_EncodingRoundTrips ==
    enc_out.done =>
        /\ Shr(enc_out.id, TIME_SHIFT) = enc_in.millis
        /\ And(Shr(enc_out.id, SEQ_SHIFT), 2^SeqBits - 1) = enc_in.seq
        /\ And(enc_out.id, 3) = enc_in.service_id

\* the largest value of every field has been encoded
C9_Witness ==
    /\ enc_out.done
    /\ enc_in = [millis |-> 2^MillisBits - 1, seq |-> 2^SeqBits - 1, service_id |-> 3]
    /\ enc_out.id = 2^(I64Bits - 1) - 1

\* C10: each of the four constructors fails with InvalidServiceIdError and
\* builds nothing exactly when service_id > 3; otherwise it succeeds with the
\* given service id, last_millis = 0 and seq = 0.
C10_ConstructionValidatesServiceId ==
    [][ctor' # ctor => /\ ctor'.name \in Constructors
           /\ IF ctor'.service_id > 3
              THEN /\ ctor'.result = "InvalidServiceIdError"
                   /\ kind' = "none"
                   /\ handles' = {}
              ELSE /\ ctor'.result = "Ok"
                   /\ kind' = (IF ctor'.name \in {"Snowflake::new", "Snowflake::with_epoch"}
                               THEN "Snowflake" ELSE "ConcurrentSnowflake")
                   /\ service_id' = ctor'.service_id
                   /\ last_millis' = 0
                   /\ seq' = 0]_vars

\* ConcurrentSnowflake::with_epoch has just rejected service id 4
C10_Witness ==
    /\ ctor.name = "ConcurrentSnowflake::with_epoch"
    /\ ctor.service_id = 4
    /\ ctor.result = "InvalidServiceIdError"
    /\ kind = "none"
    /\ handles = {}

\* C11: once a thread has panicked inside gen while holding the mutex, every
\* later gen call on every handle returns PoisonError, returns no id and
\* leaves last_millis and seq unchanged, and the mutex stays poisoned.
C11_PoisonIsPermanent ==
    [][poisoned =>
        /\ poisoned'
        /\ issued' = issued
        /\ last_millis' = last_millis
        /\ seq' = seq
        /\ \A t \in Threads :
              (pc[t] = "waiting" /\ pc'[t] # "waiting")
                  => (result'[t] = "PoisonError" /\ pc'[t] = "idle")]_vars

\* after an id was issued one thread panicked under the lock and another
\* thread's call has returned PoisonError
C11_Witness ==
    /\ poisoned
    /\ Len(issued) > 0
    /\ seq > 0
    /\ \E t, u \in Threads : /\ pc[t] = "panicked"
                             /\ result[u] = "PoisonError"
                             /\ pc[u] = "idle"

\* C12: a gen call whose clock reading lies before the epoch panics, returns
\* no id and leaves last_millis and seq as they were; no returned id was
\* built from a negative elapsed time.
C12_ClockBeforeEpochPanics ==
    [][/\ \A t \in Threads, now \in Clock :
            (now < epoch /\ (SnowflakeGen(t, now) \/ ConcurrentGen(t, now)))
                => /\ result'[t] = "Panic"
                   /\ pc'[t] = "panicked"
                   /\ issued' = issued
                   /\ last_millis' = last_millis
                   /\ seq' = seq
       /\ Returned => (NewCall.millis >= 0 /\ DecodeMillis(NewCall.id) >= 0)]_vars

\* a Snowflake that had issued an id panicked on a later call and kept its
\* counters
C12_Witness ==
    /\ kind = "Snowflake"
    /\ epoch > 0
    /\ \E t \in Threads : result[t] = "Panic" /\ pc[t] = "panicked"
    /\ Len(issued) > 0
    /\ seq > 0
    /\ last_millis = issued[Len(issued)].millis

\* C13: if call A precedes call B on one generator, every call from A to B
\* reads the same millisecond and none of them takes the exhaustion branch,
\* then the two ids have equal timestamp fields and A's sequence field is
\* strictly less than B's.
C13_SameMillisecondSeqIncreases ==
    \A a, b \in Calls :
        (/\ a < b
         /\ \A k \in a..b : issued[k].millis = issued[a].millis /\ ~issued[k].stalled)
            => /\ DecodeMillis(issued[a].id) = DecodeMillis(issued[b].id)
               /\ DecodeSeq(issued[a].id) < DecodeSeq(issued[b].id)

\* C14: a gen call that sees no new millisecond while the sequence is not
\* exhausted (seq below its 17-bit maximum) advances seq by one modulo
\* 131072 (SeqCapacity).
C14_SeqAdvancesModuloCapacity ==
    [][(Returned /\ ~(NewCall.millis > last_millis) /\ seq # SeqCapacity - 1)
          => seq' = (seq + 1) % SeqCapacity]_vars

\* C15: a gen call that reads millis > last_millis returns an id with
\* timestamp field millis and sequence field 1, whatever seq was before, and
\* leaves last_millis = millis.
C15_NewMillisecondResetsSeq ==
    [][(Returned /\ NewCall.millis > last_millis)
          => /\ last_millis' = NewCall.millis
             /\ seq' = 1
             /\ DecodeMillis(NewCall.id) = NewCall.millis
             /\ DecodeSeq(NewCall.id) = 1]_vars

\* the last call saw a new millisecond after the previous one had left
\* seq at 2, and returned sequence field 1
C15_Witness ==
    /\ Len(issued) >= 3
    /\ LET n == Len(issued) IN
       /\ DecodeSeq(issued[n - 1].id) = 2
       /\ issued[n].millis > issued[n - 1].millis
       /\ DecodeSeq(issued[n].id) = 1
       /\ last_millis = issued[n].millis

\* C16: between calls the generator's state describes the most recently
\* returned id: last_millis = id >> 19 and seq = (id >> 2) & 0x1FFFF.
C16_StateMirrorsLastId ==
    Len(issued) > 0 =>
        LET id == issued[Len(issued)].id IN
        /\ last_millis = Shr(id, TIME_SHIFT)
        /\ seq = And(Shr(id, SEQ_SHIFT), 2^SeqBits - 1)

\* after a rollback the state holds the timestamp and sequence of the last id,
\* not of the largest one
C16_Witness ==
    /\ Len(issued) >= 2
    /\ LET n == Len(issued) IN
       /\ issued[n].millis < issued[n - 1].millis
       /\ last_millis = issued[n].millis
       /\ seq = 2
       /\ DecodeSeq(issued[n].id) = 2

\* C17: under a fair scheduler every thread inside a ConcurrentSnowflake::gen
\* call eventually leaves it (with an id, PoisonError or a panic) and does
\* not hold the mutex afterwards: no call blocks forever.
C17_EveryCallReturns ==
    \A t \in Threads :
        (pc[t] \in {"waiting", "locked"}) ~> (pc[t] \in {"idle", "panicked"} /\ mutex # t)

\* one thread is blocked in lock() while another is inside the critical
\* section, after an earlier call has already returned
C17_Witness ==
    /\ Len(issued) > 0
    /\ \E t, u \in Threads : /\ pc[t] = "waiting"
                             /\ pc[u] = "locked"
                             /\ mutex = u

\* C18: epoch and service_id keep their construction-time values; last_millis
\* and seq change only in a step in which gen returns an id; clone and a call
\* that returns PoisonError change none of the four fields.
C18_FieldsChangeOnlyInGen ==
    [][/\ kind # "none" => (epoch' = epoch /\ service_id' = service_id)
       /\ (last_millis' # last_millis \/ seq' # seq) => Returned
       /\ (kind # "none" /\ handles' # handles) => UNCHANGED gen_state
       /\ \A t \in Threads :
             (pc[t] = "waiting" /\ pc'[t] = "idle") => UNCHANGED gen_state]_vars

\* a generator built with epoch 1 and service id 2 has issued an id, was
\* cloned, and a call on it has returned PoisonError
C18_Witness ==
    /\ epoch = 1
    /\ service_id = 2
    /\ ctor.service_id = 2
    /\ seq > 0
    /\ Len(issued) > 0
    /\ Cardinality(handles) >= 2
    /\ \E t \in Threads : result[t] = "PoisonError"

\* C19: of two ids encoded from timestamps m1 < m2, by generators with any
\* service ids and at any sequence values, the first is numerically smaller
\* and carries the smaller timestamp field.
C19_OrderedByTimestamp ==
    (enc_out.done /\ enc_out2.done /\ enc_in.millis < enc_in2.millis)
        => /\ enc_out.id < enc_out2.id
           /\ Shr(enc_out.id, TIME_SHIFT) < Shr(enc_out2.id, TIME_SHIFT)

\* the earlier id has the largest sequence and service id, the later one the
\* smallest, one millisecond apart
C19_Witness ==
    /\ enc_out.done
    /\ enc_out2.done
    /\ enc_in = [millis |-> 0, seq |-> 2^SeqBits - 1, service_id |-> 3]
    /\ enc_in2 = [millis |-> 1, seq |-> 0, service_id |-> 0]
    /\ enc_out.id + 1 = enc_out2.id

====
